---------------------------- MODULE Spec2Model ----------------------------
(***************************************************************************)
(* A model of MainWindow.show_mind_map of src/AlphaPatent.py: the loop     *)
(* that builds the networkx graph from self.data, the spring layout call   *)
(* and the on_click handler that resolves a click to the nearest node.     *)
(*                                                                         *)
(* A Python str is a sequence of one-character strings, so that "in",      *)
(* split and strip are computed character by character.                    *)
(***************************************************************************)
EXTENDS Integers, Sequences, FiniteSets, TLC

VARIABLES
    data,          \* self.data.items(): <<patent, classification>> in dict order
    i,             \* number of records the build loop has processed
    G,             \* the nx.Graph: nodes (insertion order), type, edges
    topic,         \* the loop's local "topic" after the last iteration
    subtopic,      \* the loop's local "subtopic": None or Some(str)
    rng,           \* state of numpy's global RandomState
    pos,           \* the layout: <<node, x, y>> in the dict's iteration order
    prevPos,       \* the layout of the previous show_mind_map call
    calls,         \* number of show_mind_map calls so far
    closest_node,  \* on_click's local, None or Some(node)
    min_dist,      \* on_click's local: [inf, d2], d2 the squared distance
    loaded,        \* argument of load_pdf_for_patent, None or Some(patent)
    click          \* the last event inside the axes: None or Some(<<xdata, ydata>>)

vars == <<data, i, G, topic, subtopic, rng, pos, prevPos, calls,
          closest_node, min_dist, loaded, click>>

buildVars == <<data, i, G, topic, subtopic>>
layoutVars == <<rng, pos, prevPos, calls>>
clickVars == <<closest_node, min_dist, loaded, click>>

---------------------------------------------------------------------------
(* Bounds of the model.                                                    *)

MaxRecords == 2
MaxLen == 5
MaxCalls == 2
RngMod == 16

---------------------------------------------------------------------------
(* Python values.                                                          *)

None == <<>>
Some(v) == <<v>>

Sep == ">"
Space == " "
Empty == <<>>
Uncategorized == <<"U", "n", "c", "a", "t", "e", "g", "o", "r", "i", "z", "e", "d">>

\* str.strip(): drop the whitespace at both ends.
RECURSIVE LStrip(_)
LStrip(s) == IF s # Empty /\ Head(s) = Space THEN LStrip(Tail(s)) ELSE s

RECURSIVE RStrip(_)
RStrip(s) ==
    IF s # Empty /\ s[Len(s)] = Space THEN RStrip(SubSeq(s, 1, Len(s) - 1)) ELSE s

Strip(s) == RStrip(LStrip(s))

\* ">" in classification
Contains(s, c) == \E k \in 1..Len(s) : s[k] = c

\* The scan of str.split: index of the first c at or after k, 0 if none.
RECURSIVE Find(_, _, _)
Find(s, c, k) ==
    IF k > Len(s) THEN 0
    ELSE IF s[k] = c THEN k
    ELSE Find(s, c, k + 1)

SplitAt(s, k) == <<SubSeq(s, 1, k - 1), SubSeq(s, k + 1, Len(s))>>

\* classification.rsplit(">", 1): the split at the last separator.
SplitLast(s) ==
    SplitAt(s, CHOOSE k \in 1..Len(s) :
                   s[k] = Sep /\ \A m \in (k + 1)..Len(s) : s[m] # Sep)

\* classification.split(">", 1), used when ">" occurs in s.
SplitFirst(s) == SplitAt(s, Find(s, Sep, 1))

\* Lines 102-107: the topic and the subtopic of a classification.
Parse(classification) ==
    IF Contains(classification, Sep)
    THEN LET parts == SplitFirst(classification)
         IN  [topic |-> Strip(parts[1]), subtopic |-> Some(Strip(parts[2]))]
    ELSE [topic |-> IF Strip(classification) # Empty
                    THEN Strip(classification)
                    ELSE Uncategorized,
          subtopic |-> None]

\* "if subtopic:" -- None and the empty string are both false.
Truthy(sub) == sub # None /\ sub[1] # Empty

---------------------------------------------------------------------------
(* networkx.Graph: nodes in insertion order, the 'type' attribute of each, *)
(* and the undirected edges (a self-loop is a one-element set).            *)

EmptyGraph == [nodes |-> <<>>, type |-> <<>>, edges |-> {}]

NodeSet(g) == {g.nodes[k] : k \in 1..Len(g.nodes)}

has_node(g, n) == n \in NodeSet(g)

TypeOf(g, n) == g.type[CHOOSE k \in 1..Len(g.nodes) : g.nodes[k] = n]

\* G.add_node(n, type=t): a new node is appended, an existing node's
\* attribute is updated.
add_node(g, n, t) ==
    IF has_node(g, n)
    THEN [g EXCEPT !.type =
              [k \in 1..Len(g.nodes) |-> IF g.nodes[k] = n THEN t ELSE @[k]]]
    ELSE [g EXCEPT !.nodes = Append(@, n), !.type = Append(@, t)]

\* G.add_edge(u, v): both endpoints exist at every call of the build.
add_edge(g, u, v) == [g EXCEPT !.edges = @ \cup {{u, v}}]

\* "if not G.has_node(n): G.add_node(n, type=t)" without its guard.
EnsureNodeUnguarded(g, n, t) == add_node(g, n, t)

\* Lines 110-111 and 114-115: "if not G.has_node(n): G.add_node(n, type=t)".
EnsureNode(g, n, t) == IF has_node(g, n) THEN g ELSE add_node(g, n, t)

\* The loop body with the patent joined to the topic in both branches.
AddRecordToTopic(g, patent, classification) ==
    LET p == Parse(classification)
        g1 == EnsureNode(g, p.topic, "topic")
    IN  IF Truthy(p.subtopic)
        THEN LET g2 == EnsureNode(g1, p.subtopic[1], "subtopic")
                 g3 == add_edge(g2, p.topic, p.subtopic[1])
                 g4 == add_node(g3, patent, "patent")
             IN  add_edge(g4, p.topic, patent)
        ELSE add_edge(add_node(g1, patent, "patent"), p.topic, patent)

\* Lines 101-123: one iteration of the build loop.
AddRecord(g, patent, classification) ==
    LET p == Parse(classification)
        g1 == EnsureNode(g, p.topic, "topic")
    IN  IF Truthy(p.subtopic)
        THEN LET g2 == EnsureNode(g1, p.subtopic[1], "subtopic")
                 g3 == add_edge(g2, p.topic, p.subtopic[1])
                 g4 == add_node(g3, patent, "patent")
             IN  add_edge(g4, p.subtopic[1], patent)
        ELSE add_edge(add_node(g1, patent, "patent"), p.topic, patent)

\* Lines 100-123: the whole loop over the records of d, in d's order.
RECURSIVE BuildFrom(_, _)
BuildFrom(g, d) ==
    IF d = <<>> THEN g
    ELSE BuildFrom(AddRecord(g, Head(d)[1], Head(d)[2]), Tail(d))

BuildAll(d) == BuildFrom(EmptyGraph, d)

---------------------------------------------------------------------------
(* The inputs: self.data as load_data leaves it, every classification      *)
(* stripped, the keys distinct.                                            *)

P1 == <<"P", "1">>
P2 == <<"P", "2">>
P3 == <<"P", "3">>
A == <<"A">>
B == <<"B">>
C == <<"C">>

RecordIds == {P1, P2, P3, A}

Classifications ==
    { Empty, A, B, C,
      <<"A", ">", "B">>, <<"C", ">", "B">>, <<"A", ">", "A">>,
      <<">", "B">>, <<"A", ">">>, <<"A", ">", "B", ">", "C">> }

RECURSIVE SeqsOf(_, _)
SeqsOf(S, n) ==
    IF n = 0 THEN {<<>>}
    ELSE LET shorter == SeqsOf(S, n - 1)
         IN  shorter \cup {Append(s, x) : s \in {t \in shorter : Len(t) = n - 1}, x \in S}

Distinct(s) == \A j, k \in 1..Len(s) : j # k => s[j] # s[k]

KeyOrders == {s \in SeqsOf(RecordIds, MaxRecords) : Distinct(s)}

DataInputs ==
    UNION { {[k \in 1..Len(ks) |-> <<ks[k], cs[k]>>] :
                cs \in [1..Len(ks) -> Classifications]} : ks \in KeyOrders }

\* All orders in which a dict may hold the records of the set m.
Orders(m) == {s \in SeqsOf(m, Cardinality(m)) : Len(s) = Cardinality(m) /\ Distinct(s)}

\* {"P1": "A>B", "P2": "A>B", "P3": "C"}
ScenarioMap == {<<P1, <<"A", ">", "B">>>>, <<P2, <<"A", ">", "B">>>>, <<P3, C>>}

BuildInputs == DataInputs \cup Orders(ScenarioMap)

IdleLayout == rng = 0 /\ pos = <<>> /\ prevPos = <<>> /\ calls = 0
IdleClick ==
    /\ closest_node = None
    /\ min_dist = [inf |-> TRUE, d2 |-> 0]
    /\ loaded = None
    /\ click = None

Init ==
    /\ data \in BuildInputs
    /\ i = 0
    /\ G = EmptyGraph
    /\ topic = Empty
    /\ subtopic = None
    /\ IdleLayout
    /\ IdleClick

\* Lines 101-123: the loop processes the next record of self.data.
BuildStep ==
    /\ i < Len(data)
    /\ G' = AddRecord(G, data[i + 1][1], data[i + 1][2])
    /\ topic' = Parse(data[i + 1][2]).topic
    /\ subtopic' = Parse(data[i + 1][2]).subtopic
    /\ i' = i + 1
    /\ UNCHANGED <<data, layoutVars, clickVars>>

Next == BuildStep

Spec == Init /\ [][Next]_vars

---------------------------------------------------------------------------
(* What the build has done after i records.                                *)

Processed == 1..i
Pat(j) == data[j][1]
Cls(j) == data[j][2]
Top(j) == Parse(Cls(j)).topic
Sub(j) == Parse(Cls(j)).subtopic
HasSub(j) == Truthy(Sub(j))
Done == i = Len(data)

Nbrs(g, n) == {m \in NodeSet(g) : {n, m} \in g.edges}

\* The number of edges of a shortest path from a to b: 0, 1, 2, or 3 for
\* "3 or more or none".
PathLen(g, a, b) ==
    IF a = b THEN 0
    ELSE IF {a, b} \in g.edges THEN 1
    ELSE IF Nbrs(g, a) \cap Nbrs(g, b) # {} THEN 2
    ELSE 3

\* The node set with kinds, and the strings used in each role.
Kinds(g) == {<<g.nodes[k], g.type[k]>> : k \in 1..Len(g.nodes)}
TopicUses == {Top(j) : j \in Processed}
SubtopicUses == {Sub(j)[1] : j \in {k \in Processed : HasSub(k)}}
RecordUses == {Pat(j) : j \in Processed}

Roles(n) ==
    {r \in {"topic", "subtopic", "patent"} :
        \/ r = "topic" /\ n \in TopicUses
        \/ r = "subtopic" /\ n \in SubtopicUses
        \/ r = "patent" /\ n \in RecordUses}

---------------------------------------------------------------------------
(* C1: every processed record's node is joined to its Topic-kind node by   *)
(* a path of exactly 1 edge (no subtopic) or exactly 2 edges through one   *)
(* Subtopic-kind node; the path length is never 0 and never 3 or more.     *)
C1_RecordWithinTwoOfTopic ==
    \A j \in Processed :
        /\ has_node(G, Top(j))
        /\ TypeOf(G, Top(j)) = "topic"
        /\ IF HasSub(j)
           THEN /\ PathLen(G, Pat(j), Top(j)) = 2
                /\ \E m \in Nbrs(G, Pat(j)) \cap Nbrs(G, Top(j)) :
                       TypeOf(G, m) = "subtopic"
           ELSE PathLen(G, Pat(j), Top(j)) = 1

(* C2: the finished graph has the same nodes (id with kind) and the same   *)
(* edges as a build of the same mapping in any other iteration order.      *)
C2_OrderIndependent ==
    Done =>
        \A d \in Orders({data[k] : k \in 1..Len(data)}) :
            /\ Kinds(BuildAll(d)) = Kinds(G)
            /\ BuildAll(d).edges = G.edges

(* C3: a string used with two different node kinds is rejected: the build  *)
(* never gets past such a use, so no node of the graph stands for two      *)
(* kinds of use and no node's kind is overwritten.                         *)
C3_KindConflictRejected ==
    \A n \in NodeSet(G) : Cardinality(Roles(n)) <= 1

(* C4: every distinct (Topic, Subtopic) pair has a subtopic node of its    *)
(* own, shared by exactly the records classified under that pair: the      *)
(* records of two different pairs ("A>X", "B>X") are joined to different   *)
(* subtopic nodes.                                                         *)
C4_SubtopicNodePerPair ==
    \A j, k \in {r \in Processed : HasSub(r)} :
        <<Top(j), Sub(j)>> # <<Top(k), Sub(k)>>
            => Nbrs(G, Pat(j)) \cap Nbrs(G, Pat(k)) = {}

(* C5: after every prefix of the records, the Record-kind (patent) nodes   *)
(* are exactly the processed record ids, one node each, so their number    *)
(* is the number of processed records.                                     *)
C5_OneRecordNodePerRecord ==
    /\ {n \in NodeSet(G) : TypeOf(G, n) = "patent"} = RecordUses
    /\ Cardinality({k \in 1..Len(G.nodes) : G.type[k] = "patent"}) = i
    /\ Distinct(G.nodes)

\* A record id that is also the topic or subtopic string of a record that
\* the loop processed after it.
C5_Witness ==
    /\ i >= 2
    /\ \E j, k \in Processed :
           /\ j < k
           /\ Pat(j) = Top(k) \/ (HasSub(k) /\ Pat(j) = Sub(k)[1])

(* C7: every malformed or missing classification degrades to the           *)
(* "Uncategorized" default: a classification that is empty after trimming  *)
(* gives topic "Uncategorized", no subtopic, and the record joined to it;  *)
(* no record is under a Topic node whose id is the empty string.           *)
C7_DegradesToUncategorized ==
    \A j \in Processed :
        /\ Top(j) # Empty
        /\ ~has_node(G, Empty)
        /\ (Strip(Cls(j)) = Empty =>
               /\ Top(j) = Uncategorized
               /\ Sub(j) = None
               /\ {Uncategorized, Pat(j)} \in G.edges)

---------------------------------------------------------------------------
(* The parse of one classification: the build of a one-record mapping,     *)
(* for every stripped string over the alphabet up to MaxLen characters.    *)

ParseAlphabet == {"A", "B", "C", Sep, Space}

ParseInputs == {s \in SeqsOf(ParseAlphabet, MaxLen) : Strip(s) = s}

InitParse ==
    /\ \E s \in ParseInputs : data = <<<<P1, s>>>>
    /\ i = 0
    /\ G = EmptyGraph
    /\ topic = Empty
    /\ subtopic = None
    /\ IdleLayout
    /\ IdleClick

NextParse == BuildStep

SpecParse == InitParse /\ [][NextParse]_vars

\* s without the spaces before its first and after its last other character.
Trimmed(s) ==
    LET keep == {k \in 1..Len(s) : s[k] # Space}
    IN  IF keep = {} THEN Empty
        ELSE SubSeq(s, CHOOSE k \in keep : \A m \in keep : k <= m,
                       CHOOSE k \in keep : \A m \in keep : k >= m)

(* C10: a classification holding ">" is split at its first occurrence      *)
(* only: the trimmed left part is the topic, the trimmed remainder, with   *)
(* any further ">" kept in it, is the subtopic; the record gets one topic  *)
(* node and at most one subtopic node ("A>B>C": topic "A", subtopic        *)
(* "B>C").                                                                 *)
C10_SplitAtFirstSeparator ==
    (i = 1 /\ Contains(Cls(1), Sep)) =>
        LET c == Cls(1)
            first == CHOOSE k \in 1..Len(c) :
                         c[k] = Sep /\ \A m \in 1..(k - 1) : c[m] # Sep
            left == Trimmed(SubSeq(c, 1, first - 1))
            rest == Trimmed(SubSeq(c, first + 1, Len(c)))
        IN  /\ topic = left
            /\ subtopic = Some(rest)
            /\ NodeSet(G) = {left, Pat(1)} \cup (IF rest = Empty THEN {} ELSE {rest})
            /\ TypeOf(G, left) = "topic"
            /\ (rest # Empty /\ rest # left) => TypeOf(G, rest) = "subtopic"
            /\ (c = <<"A", Sep, "B", Sep, "C">> =>
                   Kinds(G) = {<<A, "topic">>, <<<<"B", Sep, "C">>, "subtopic">>,
                               <<P1, "patent">>})

\* "A>B>C" has been parsed.
C10_Witness ==
    /\ i = 1
    /\ Cls(1) = <<"A", Sep, "B", Sep, "C">>
    /\ topic = A
    /\ subtopic = Some(<<"B", Sep, "C">>)

---------------------------------------------------------------------------
(* Line 126: nx.spring_layout(G, k=0.5, iterations=50).  No seed is        *)
(* passed, so the initial positions are drawn from numpy's global          *)
(* RandomState, which the process seeds from the operating system; the     *)
(* iterations that follow read no randomness, and pos keeps the drawn      *)
(* placement they start from.  An empty graph gives an empty dict and a    *)
(* one-node graph the centre, both without a draw.                         *)

RngNext(s) == (5 * s + 3) % RngMod

RECURSIVE Advance(_, _)
Advance(s, n) == IF n = 0 THEN s ELSE Advance(RngNext(s), n - 1)

\* pos = spring_layout(G, ...) with the global generator in state s.
spring_layout(g, s) ==
    IF Len(g.nodes) = 0 THEN [pos |-> <<>>, rng |-> s]
    ELSE IF Len(g.nodes) = 1 THEN [pos |-> <<<<g.nodes[1], 0, 0>>>>, rng |-> s]
    ELSE [pos |-> [k \in 1..Len(g.nodes) |->
                      <<g.nodes[k], Advance(s, 2 * k - 2), Advance(s, 2 * k - 1)>>],
          rng |-> Advance(s, 2 * Len(g.nodes))]

LayoutInputs == {d \in DataInputs : Len(d) <= 1}

InitLayout ==
    /\ data \in LayoutInputs
    /\ i = 0
    /\ G = EmptyGraph
    /\ topic = Empty
    /\ subtopic = None
    /\ rng \in 0..(RngMod - 1)
    /\ pos = <<>>
    /\ prevPos = <<>>
    /\ calls = 0
    /\ IdleClick

\* Lines 87-143: a press of "View Mind Map" builds the graph from self.data
\* and lays it out.
show_mind_map ==
    /\ calls < MaxCalls
    /\ G' = BuildAll(data)
    /\ i' = Len(data)
    /\ topic' = IF data = <<>> THEN topic ELSE Parse(data[Len(data)][2]).topic
    /\ subtopic' = IF data = <<>> THEN subtopic ELSE Parse(data[Len(data)][2]).subtopic
    /\ pos' = spring_layout(G', rng).pos
    /\ rng' = spring_layout(G', rng).rng
    /\ prevPos' = pos
    /\ calls' = calls + 1
    /\ UNCHANGED <<data, clickVars>>

NextLayout == show_mind_map

SpecLayout == InitLayout /\ [][NextLayout]_vars

(* C9: two invocations of the layout on the same graph with identical      *)
(* arguments give every node the same position: the initial positions      *)
(* depend on no ambient or global source of randomness.                    *)
C9_LayoutDeterministic == calls >= 2 => pos = prevPos

---------------------------------------------------------------------------
(* Lines 145-161: on_click.  Coordinates are in hundredths of a layout     *)
(* unit and distances are compared by their squares: the square root is    *)
(* monotone, and 0.1 is Threshold hundredths.                              *)

Threshold == 10

Points == {<<0, 0>>, <<6, 0>>, <<0, 6>>, <<6, 8>>, <<10, 10>>}

\* (x - x_click) ** 2 + (y - y_click) ** 2
Dist2(p, x, y) == (p[2] - x) * (p[2] - x) + (p[3] - y) * (p[3] - y)

\* "dist <= min_dist": the later of two nodes at the same distance wins.
CloserOrEqual(d, best) == best.inf \/ d <= best.d2

\* Line 153, "dist < min_dist", min_dist starting at float('inf').
Closer(d, best) == best.inf \/ d < best.d2

\* Lines 149-155: the scan of pos.items() from its k-th item on.
RECURSIVE Scan(_, _, _, _, _)
Scan(ps, k, x, y, best) ==
    IF k > Len(ps) THEN best
    ELSE IF Closer(Dist2(ps[k], x, y), best)
         THEN Scan(ps, k + 1, x, y,
                   [node |-> Some(ps[k][1]), inf |-> FALSE, d2 |-> Dist2(ps[k], x, y)])
         ELSE Scan(ps, k + 1, x, y, best)

\* Line 157, "min_dist < 0.1".
IsHit(md) == ~md.inf /\ md.d2 < Threshold * Threshold

\* The node the click resolves to, None for a miss.
HitResult == IF IsHit(min_dist) THEN closest_node ELSE None

HitInputs ==
    { <<>>,
      <<<<P1, A>>>>,
      <<<<P1, <<"A", Sep, "B">>>>>>,
      <<<<P1, A>>, <<P2, A>>>> }

Placements(g) ==
    {[k \in 1..Len(g.nodes) |-> <<g.nodes[k], f[k][1], f[k][2]>>] :
        f \in [1..Len(g.nodes) -> Points]}

\* The dialog is open: the graph is built and laid out.
InitHit ==
    /\ data \in HitInputs
    /\ i = Len(data)
    /\ G = BuildAll(data)
    /\ topic = (IF data = <<>> THEN Empty ELSE Parse(data[Len(data)][2]).topic)
    /\ subtopic = (IF data = <<>> THEN None ELSE Parse(data[Len(data)][2]).subtopic)
    /\ rng = 0
    /\ pos \in Placements(G)
    /\ prevPos = <<>>
    /\ calls = 1
    /\ IdleClick

\* Lines 145-161: a button_press_event while the dialog is open.
on_click ==
    /\ loaded = None
    /\ \E inaxes \in BOOLEAN, p \in Points :
           IF ~inaxes
           THEN UNCHANGED vars
           ELSE LET best == Scan(pos, 1, p[1], p[2],
                                 [node |-> None, inf |-> TRUE, d2 |-> 0])
                IN  /\ click' = Some(p)
                    /\ closest_node' = best.node
                    /\ min_dist' = [inf |-> best.inf, d2 |-> best.d2]
                    /\ loaded' = IF /\ IsHit(best)
                                    /\ TypeOf(G, best.node[1]) = "patent"
                                 THEN best.node
                                 ELSE None
                    /\ UNCHANGED <<buildVars, layoutVars>>

NextHit == on_click

SpecHit == InitHit /\ [][NextHit]_vars

\* The squared distance from the last click to the k-th node of pos.
ClickDist2(k) == Dist2(pos[k], click[1][1], click[1][2])

(* C8: the click resolves to the node at minimum distance if and only if   *)
(* that distance is strictly less than the threshold, and otherwise to a   *)
(* miss (a distance equal to the threshold and an empty positions map      *)
(* included); among the nodes at the minimum distance the first in the     *)
(* map's iteration order is taken; a click exactly on a node's position    *)
(* resolves to a node at that position.                                    *)
C8_HitTest ==
    click # None =>
        IF pos = <<>> THEN HitResult = None
        ELSE LET m == CHOOSE d \in {ClickDist2(k) : k \in 1..Len(pos)} :
                          \A k \in 1..Len(pos) : d <= ClickDist2(k)
                 first == CHOOSE k \in 1..Len(pos) :
                              /\ ClickDist2(k) = m
                              /\ \A j \in 1..(k - 1) : ClickDist2(j) # m
             IN  /\ (m < Threshold * Threshold => HitResult = Some(pos[first][1]))
                 /\ (m >= Threshold * Threshold => HitResult = None)
                 /\ (m = 0 => HitResult = Some(pos[first][1]))
                 /\ loaded = (IF HitResult # None /\ TypeOf(G, HitResult[1]) = "patent"
                              THEN HitResult ELSE None)

\* Two nodes at the same minimum distance below the threshold, the click
\* resolved to the earlier one.
C8_Witness ==
    /\ click # None
    /\ \E j, k \in 1..Len(pos) :
           /\ j < k
           /\ ClickDist2(j) = ClickDist2(k)
           /\ ClickDist2(j) > 0
           /\ \A n \in 1..Len(pos) : ClickDist2(j) <= ClickDist2(n)
           /\ HitResult = Some(pos[j][1])

===========================================================================
